---------------------------- MODULE Spec2Model ----------------------------
(***************************************************************************)
(* A model of latentis' LatentTranslator (src/latentis/translate/          *)
(* translator.py) and of the hand-written reference pipeline of            *)
(* tests/translate/test_manual_translate.py.                               *)
(*                                                                         *)
(* Tensors are matrices (sequences of rows) of exact rationals <<n, d>>.   *)
(* Objects (transforms, estimators) live in a heap and are referred to by  *)
(* their index, as nn.ModuleList keeps references to the objects it was    *)
(* given.                                                                  *)
(***************************************************************************)
EXTENDS Integers, Sequences, FiniteSets, TLC

(***************************************************************************)
(* Bounds of the model.                                                    *)
(***************************************************************************)
\* Largest number of rows of a batch (the smallest is 2: torch's unbiased
\* standard deviation needs two rows).
MaxRows == 3
\* Largest number of columns of a source or target space.
MaxCols == 2
\* Denominator of the rational a non-exact square root is rounded to.
SqrtDen == 4
\* The batches of one shape to draw from.
MaxSample == 4

(***************************************************************************)
(* Evaluation.                                                             *)
(***************************************************************************)
\* F(e), with e evaluated once and handed to F as a value.
Bind(e, F(_)) == CHOOSE r \in {F(v) : v \in {e}} : TRUE

(***************************************************************************)
(* Exact rational arithmetic.                                              *)
(***************************************************************************)
Abs(n) == IF n < 0 THEN -n ELSE n

RECURSIVE Gcd(_, _)
Gcd(a, b) == IF b = 0 THEN a ELSE Gcd(b, a % b)

\* The rational n/d in lowest terms with a positive denominator.
Q(n, d) ==
    Bind(<<n, d, Gcd(Abs(n), Abs(d))>>,
         LAMBDA p : IF p[2] < 0 THEN <<(-p[1]) \div p[3], (-p[2]) \div p[3]>>
                    ELSE <<p[1] \div p[3], p[2] \div p[3]>>)

Zero == <<0, 1>>
One == <<1, 1>>
QInt(n) == <<n, 1>>
QAdd(a, b) == Bind(<<a, b>>, LAMBDA p : Q(p[1][1] * p[2][2] + p[2][1] * p[1][2], p[1][2] * p[2][2]))
QSub(a, b) == Bind(<<a, b>>, LAMBDA p : Q(p[1][1] * p[2][2] - p[2][1] * p[1][2], p[1][2] * p[2][2]))
QMul(a, b) == Bind(<<a, b>>, LAMBDA p : Q(p[1][1] * p[2][1], p[1][2] * p[2][2]))
QDiv(a, b) == Bind(<<a, b>>, LAMBDA p : Q(p[1][1] * p[2][2], p[1][2] * p[2][1]))
QAbs(a) == <<Abs(a[1]), a[2]>>
QLess(a, b) == a[1] * b[2] < b[1] * a[2]

\* The integer square root.
ISqrt(n) == CHOOSE k \in 0..n : k * k <= n /\ (k + 1) * (k + 1) > n
IsSquare(n) == \E k \in 0..n : k * k = n

\* torch.sqrt: exact on the square of a rational, and otherwise the root
\* rounded down to a multiple of 1/SqrtDen (a float is a rounded root too).
QSqrt(a) ==
    Bind(a, LAMBDA p :
        IF IsSquare(p[1]) /\ IsSquare(p[2])
        THEN Q(ISqrt(p[1]), ISqrt(p[2]))
        ELSE Q(ISqrt((p[1] * SqrtDen * SqrtDen) \div p[2]), SqrtDen))

RECURSIVE QSum(_)
QSum(s) == IF s = <<>> THEN Zero ELSE QAdd(s[1], QSum(Tail(s)))

(***************************************************************************)
(* Tensors of shape (N, D).                                                *)
(***************************************************************************)
\* An absent value (None, or a buffer that was never registered).
None == <<>>

Rows(x) == Len(x)
Cols(x) == Len(x[1])

\* The vector of n entries f(1), ..., f(n), and the matrix of r rows and c
\* columns of entries f(i, j), as evaluated values.
Vector(n, f(_)) == [j \in 1..n |-> f(j)] @@ <<>>
Matrix(r, c, f(_, _)) == Vector(r, LAMBDA i : Vector(c, LAMBDA j : f(i, j)))

Col(x, j) == Vector(Rows(x), LAMBDA i : x[i][j])

\* x.mean(dim=0)
Mean(x) == Vector(Cols(x), LAMBDA j : QDiv(QSum(Col(x, j)), QInt(Rows(x))))

\* x.std(dim=0), torch's default: the unbiased estimate (divisor N - 1).
Square(a) == Bind(a, LAMBDA p : QMul(p, p))
Std(x) ==
    Bind(Mean(x), LAMBDA mean :
        Vector(Cols(x), LAMBDA j :
            QSqrt(QDiv(QSum(Vector(Rows(x), LAMBDA i : Square(QSub(x[i][j], mean[j])))),
                       QInt(Rows(x) - 1)))))

\* The L2 norm of one row.
RowNorm(r) == QSqrt(QSum(Vector(Len(r), LAMBDA j : QMul(r[j], r[j]))))

\* x.norm(p=2, dim=-1).mean()
MeanNorm(x) ==
    QDiv(QSum(Vector(Rows(x), LAMBDA i : RowNorm(x[i]))), QInt(Rows(x)))

\* F.normalize(x, p=2, dim=-1): a row of norm 0 stays 0 (the norm is clamped
\* from below by eps before the division).
Normalize(x) ==
    Bind(Vector(Rows(x), LAMBDA i : RowNorm(x[i])), LAMBDA norms :
        Matrix(Rows(x), Cols(x),
               LAMBDA i, j : IF norms[i] = Zero THEN x[i][j]
                             ELSE QDiv(x[i][j], norms[i])))

\* Row-wise broadcast of a vector v over x with a binary operation.
SubRow(x, v) == Matrix(Rows(x), Cols(x), LAMBDA i, j : QSub(x[i][j], v[j]))
AddRow(x, v) == Matrix(Rows(x), Cols(x), LAMBDA i, j : QAdd(x[i][j], v[j]))
MulRow(x, v) == Matrix(Rows(x), Cols(x), LAMBDA i, j : QMul(x[i][j], v[j]))
DivRow(x, v) == Matrix(Rows(x), Cols(x), LAMBDA i, j : QDiv(x[i][j], v[j]))
Scale(x, c) == Matrix(Rows(x), Cols(x), LAMBDA i, j : QMul(x[i][j], c))

\* x @ R
MatMul(x, R) ==
    Matrix(Rows(x), Cols(R),
           LAMBDA i, j : QSum(Vector(Cols(x), LAMBDA k : QMul(x[i][k], R[k][j]))))

\* x.T
Transpose(x) == Matrix(Cols(x), Rows(x), LAMBDA j, i : x[i][j])

\* x[:, :n]
FirstCols(x, n) == Matrix(Rows(x), n, LAMBDA i, j : x[i][j])

\* x with n zero columns appended.
PadCols(x, n) ==
    Matrix(Rows(x), Cols(x) + n, LAMBDA i, j : IF j <= Cols(x) THEN x[i][j] ELSE Zero)

(***************************************************************************)
(* Heap objects.  Every object is a record of the same fields; a field an  *)
(* object's class does not use stays None.                                 *)
(***************************************************************************)
NewObject(cls, pad) ==
    [cls |-> cls, fitted |-> FALSE, mean |-> None, std |-> None,
     norm |-> None, pad |-> pad, R |-> None]

\* The result of a call that may raise: err = "" when it returned.
Ok(val) == [err |-> "", val |-> val]
Raise(err) == [err |-> err, val |-> None]

(***************************************************************************)
(* latentis.transforms: Centering, StandardScaling, STDScaling, L2 and     *)
(* ZeroPadding, each with fit, apply (__call__) and reverse.               *)
(***************************************************************************)
\* The classes a caller builds a chain from.
UserClasses == {"Centering", "StandardScaling", "STDScaling", "L2"}

\* The classes whose apply reads fitted state.
NeedsFit == {"Centering", "StandardScaling", "STDScaling"}

\* A column of standard deviation 0 is scaled by 1.
SafeStd(x) ==
    Bind(Std(x), LAMBDA std :
        Vector(Cols(x), LAMBDA j : IF std[j] = Zero THEN One ELSE std[j]))

\* transform.fit(x): the fitted object.
TransformFit(t, x) ==
    CASE t.cls = "Centering" ->
            [t EXCEPT !.fitted = TRUE, !.mean = Mean(x)]
      [] t.cls = "StandardScaling" ->
            [t EXCEPT !.fitted = TRUE, !.mean = Mean(x), !.std = SafeStd(x)]
      [] t.cls = "STDScaling" ->
            [t EXCEPT !.fitted = TRUE, !.std = SafeStd(x)]
      [] t.cls = "L2" ->
            [t EXCEPT !.fitted = TRUE, !.norm = MeanNorm(x)]
      [] OTHER ->
            [t EXCEPT !.fitted = TRUE]

\* x has the width the transform was fitted on.
FittedWidth(t, x) ==
    /\ t.cls \in {"Centering", "StandardScaling"} => Cols(x) = Len(t.mean)
    /\ t.cls \in {"StandardScaling", "STDScaling"} => Cols(x) = Len(t.std)

\* transform(x)
TransformApply(t, x) ==
    IF t.cls \in NeedsFit /\ ~t.fitted THEN Raise("NotFittedError")
    ELSE IF ~FittedWidth(t, x) THEN Raise("ShapeError")
    ELSE CASE t.cls = "Centering" -> Ok(SubRow(x, t.mean))
           [] t.cls = "StandardScaling" ->
                Bind(SubRow(x, t.mean), LAMBDA y : Ok(DivRow(y, t.std)))
           [] t.cls = "STDScaling" -> Ok(DivRow(x, t.std))
           [] t.cls = "L2" -> Ok(Normalize(x))
           [] OTHER -> Ok(PadCols(x, t.pad))

\* transform.reverse with a slip: StandardScaling does not scale back.
TransformReverseUnscaled(t, x) ==
    CASE t.cls \in {"Centering", "StandardScaling"} -> Ok(AddRow(x, t.mean))
      [] OTHER -> Ok(FirstCols(x, Cols(x) - t.pad))

\* transform.reverse(x)
TransformReverse(t, x) ==
    IF t.cls \in (NeedsFit \cup {"L2"}) /\ ~t.fitted THEN Raise("NotFittedError")
    ELSE IF ~FittedWidth(t, x) THEN Raise("ShapeError")
    ELSE CASE t.cls = "Centering" -> Ok(AddRow(x, t.mean))
           [] t.cls = "StandardScaling" ->
                Bind(MulRow(x, t.std), LAMBDA y : Ok(AddRow(y, t.mean)))
           [] t.cls = "STDScaling" -> Ok(MulRow(x, t.std))
           [] t.cls = "L2" -> Ok(Scale(x, t.norm))
           [] OTHER -> Ok(FirstCols(x, Cols(x) - t.pad))

(***************************************************************************)
(* The orthogonal Procrustes solution.  With one column the singular value *)
(* decomposition of the 1 x 1 matrix m = A.T @ B is u = sign(m), s = |m|,  *)
(* v = 1, so R = sign(m) exactly.  With more columns U @ V.T is irrational *)
(* in general; the model then keeps the diagonal of A.T @ B only, which is *)
(* the exact solution whenever A.T @ B is diagonal, and is an orthogonal   *)
(* matrix of the right shape in every case.                                *)
(***************************************************************************)
Sign(a) == IF a[1] < 0 THEN QInt(-1) ELSE One

manual_svd_translation(A, B) ==
    Bind(Transpose(A), LAMBDA At :
    Bind(MatMul(At, B), LAMBDA M :
        [R |-> Matrix(Cols(A), Cols(A),
                      LAMBDA j, k : IF j = k THEN Sign(M[j][j]) ELSE Zero),
         s |-> Vector(Cols(A), LAMBDA j : QAbs(M[j][j]))]))

\* (~sigma.isclose(0, atol=1e-1)).sum()
SigmaRank(s) == Cardinality({j \in 1..Len(s) : QLess(Q(1, 10), s[j])})

(***************************************************************************)
(* latentis.estimate: the SVD estimator.  fit needs two arrays of equal    *)
(* row count and equal column count and fails with a dimensionality error  *)
(* otherwise.                                                              *)
(***************************************************************************)
\* estimator.fit(source_data, target_data): val is <<fitted object, metadata>>.
EstimatorFit(e, source_data, target_data) ==
    IF Rows(source_data) # Rows(target_data) \/ Cols(source_data) # Cols(target_data)
    THEN Raise("ShapeError")
    ELSE Bind(manual_svd_translation(source_data, target_data), LAMBDA m :
             Ok(<<[e EXCEPT !.fitted = TRUE, !.R = m.R],
                  [sigma_rank |-> SigmaRank(m.s)]>>))

\* estimator(x)
EstimatorApply(e, x) ==
    IF ~e.fitted THEN Raise("NotFittedError")
    ELSE IF Cols(x) # Rows(e.R) THEN Raise("ShapeError")
    ELSE Ok(MatMul(x, e.R))

(***************************************************************************)
(* LatentTranslator.                                                       *)
(***************************************************************************)
VARIABLES
    heap,         \* the objects: heap[id] is the state of object id
    translators,  \* translators[t] is the state of LatentTranslator t
    rng,          \* the seed of the process-wide random state, -1 before any
    last,         \* what the most recent call did (history)
    manual,       \* the ManualLatentTranslation of the test, None without one
    probe         \* the values a caller holds of its last calls, None without

vars == <<heap, translators, rng, last, manual, probe>>

\* LatentTranslator.__init__; source_transforms and target_transforms are
\* sequences of object ids (None and the empty list are both <<>>).
LatentTranslator(random_seed, estimator, source_transforms, target_transforms, autopad) ==
    [random_seed |-> random_seed,
     estimator |-> estimator,
     autopad |-> autopad,
     fitted |-> FALSE,
     source_transforms |-> source_transforms,
     target_transforms |-> target_transforms,
     source_data |-> None,
     target_data |-> None,
     transformed_source_data |-> None,
     transformed_target_data |-> None,
     translator_info |-> None]

\* One call made to a collaborator: op is "fit", "apply", "reverse",
\* "est_fit" or "est_apply"; x is the argument (a pair for est_fit) and y the
\* value returned (None when the call raised).
Call(op, obj, x, y) == [op |-> op, obj |-> obj, x |-> x, y |-> y]

\* The fit calls (transform.fit, estimator.fit) among calls.
FitCalls(calls) == {k \in 1..Len(calls) : calls[k].op \in {"fit", "est_fit"}}

\* FitChain with a slip: each transform is applied first and fitted after.
RECURSIVE FitChainApplyFirst(_, _, _, _, _, _)
FitChainApplyFirst(h, ids, i, x, calls, fault) ==
    IF i > Len(ids) THEN [err |-> "", heap |-> h, x |-> x, calls |-> calls]
    ELSE Bind(TransformApply(h[ids[i]], x), LAMBDA r :
         Bind(Append(calls, Call("apply", ids[i], x, r.val)), LAMBDA calls0 :
             IF r.err # ""
             THEN [err |-> r.err, heap |-> h, x |-> x, calls |-> calls0]
             ELSE IF fault = Cardinality(FitCalls(calls0)) + 1
             THEN [err |-> "RuntimeError", heap |-> h, x |-> x,
                   calls |-> Append(calls0, Call("fit", ids[i], x, None))]
             ELSE FitChainApplyFirst([h EXCEPT ![ids[i]] = TransformFit(@, x)],
                                     ids, i + 1, r.val,
                                     Append(calls0, Call("fit", ids[i], x, None)),
                                     fault)))

\* FitChain with a slip: every transform is fitted and applied, but the
\* result of apply is dropped, so the next transform sees the same data.
RECURSIVE FitChainUnthreaded(_, _, _, _, _, _)
FitChainUnthreaded(h, ids, i, x, calls, fault) ==
    IF i > Len(ids) THEN [err |-> "", heap |-> h, x |-> x, calls |-> calls]
    ELSE IF fault = Cardinality(FitCalls(calls)) + 1
    THEN [err |-> "RuntimeError", heap |-> h, x |-> x,
          calls |-> Append(calls, Call("fit", ids[i], x, None))]
    ELSE Bind(TransformFit(h[ids[i]], x), LAMBDA obj :
         Bind(TransformApply(obj, x), LAMBDA r :
         Bind([h EXCEPT ![ids[i]] = obj], LAMBDA h1 :
         Bind(calls \o <<Call("fit", ids[i], x, None),
                         Call("apply", ids[i], x, r.val)>>, LAMBDA calls1 :
             IF r.err # ""
             THEN [err |-> r.err, heap |-> h1, x |-> x, calls |-> calls1]
             ELSE FitChainUnthreaded(h1, ids, i + 1, x, calls1, fault)))))

\* for transform in ids[i..]: transform.fit(x); x = transform(x)
\* fault = n makes the n-th fit call of the enclosing LatentTranslator.fit
\* raise (0: none does).
RECURSIVE FitChain(_, _, _, _, _, _)
FitChain(h, ids, i, x, calls, fault) ==
    IF i > Len(ids) THEN [err |-> "", heap |-> h, x |-> x, calls |-> calls]
    ELSE IF fault = Cardinality(FitCalls(calls)) + 1
    THEN [err |-> "RuntimeError", heap |-> h, x |-> x,
          calls |-> Append(calls, Call("fit", ids[i], x, None))]
    ELSE Bind(TransformFit(h[ids[i]], x), LAMBDA obj :
         Bind(TransformApply(obj, x), LAMBDA r :
         Bind([h EXCEPT ![ids[i]] = obj], LAMBDA h1 :
         Bind(calls \o <<Call("fit", ids[i], x, None),
                         Call("apply", ids[i], x, r.val)>>, LAMBDA calls1 :
             IF r.err # ""
             THEN [err |-> r.err, heap |-> h1, x |-> x, calls |-> calls1]
             ELSE FitChain(h1, ids, i + 1, r.val, calls1, fault)))))

\* Begin with a slip: the fitted flag is left alone.
BeginNoFlag(t, source_data, target_data) ==
    [t EXCEPT !.source_data = source_data,
              !.target_data = target_data]

\* The head of LatentTranslator.fit: the fitted flag is set and the raw data
\* registered as buffers before any collaborator is called.
Begin(t, source_data, target_data) ==
    [t EXCEPT !.fitted = TRUE,
              !.source_data = source_data,
              !.target_data = target_data]

\* Padded with a slip: the padding goes in front of the chain.
PaddedFirst(h, t, source_data, target_data) ==
    LET s == Cols(source_data)
        c == Cols(target_data)
        pad_transform == NewObject("ZeroPadding", Abs(s - c))
        pad_id == Len(h) + 1
    IN  [heap |-> IF s # c THEN Append(h, pad_transform) ELSE h,
         tr |-> [t EXCEPT
                   !.source_transforms = IF s < c THEN <<pad_id>> \o @ ELSE @,
                   !.target_transforms = IF s > c THEN <<pad_id>> \o @ ELSE @]]

\* Padded with a slip: the padding is appended only when autopad is set.
PaddedIfAutopad(h, t, source_data, target_data) ==
    LET s == Cols(source_data)
        c == Cols(target_data)
        pad_transform == NewObject("ZeroPadding", Abs(s - c))
        pad_id == Len(h) + 1
    IN  [heap |-> IF s # c /\ t.autopad THEN Append(h, pad_transform) ELSE h,
         tr |-> [t EXCEPT
                   !.source_transforms =
                       IF s < c /\ t.autopad THEN Append(@, pad_id) ELSE @,
                   !.target_transforms =
                       IF s > c /\ t.autopad THEN Append(@, pad_id) ELSE @]]

\* Padded with a slip: the padding is appended with equal widths too, to
\* the source chain.
PaddedAlways(h, t, source_data, target_data) ==
    LET s == Cols(source_data)
        c == Cols(target_data)
        pad_transform == NewObject("ZeroPadding", Abs(s - c))
        pad_id == Len(h) + 1
    IN  [heap |-> Append(h, pad_transform),
         tr |-> [t EXCEPT
                   !.source_transforms = IF s <= c THEN Append(@, pad_id) ELSE @,
                   !.target_transforms = IF s > c THEN Append(@, pad_id) ELSE @]]

\* Padded with a slip: the padding goes to the wider side.
PaddedWrongSide(h, t, source_data, target_data) ==
    LET s == Cols(source_data)
        c == Cols(target_data)
        pad_transform == NewObject("ZeroPadding", Abs(s - c))
        pad_id == Len(h) + 1
    IN  [heap |-> IF s # c THEN Append(h, pad_transform) ELSE h,
         tr |-> [t EXCEPT
                   !.source_transforms = IF s > c THEN Append(@, pad_id) ELSE @,
                   !.target_transforms = IF s < c THEN Append(@, pad_id) ELSE @]]

\* The padding step of LatentTranslator.fit: a new ZeroPadding object of
\* pad |s - c| is appended to the chain of the narrower side; with equal
\* widths the object is dropped.
Padded(h, t, source_data, target_data) ==
    LET s == Cols(source_data)
        c == Cols(target_data)
        pad_transform == NewObject("ZeroPadding", Abs(s - c))
        pad_id == Len(h) + 1
    IN  [heap |-> IF s # c THEN Append(h, pad_transform) ELSE h,
         tr |-> [t EXCEPT
                   !.source_transforms = IF s < c THEN Append(@, pad_id) ELSE @,
                   !.target_transforms = IF s > c THEN Append(@, pad_id) ELSE @]]

\* FitEstimator with a slip: the estimator is fitted on the source twice.
FitEstimatorSourceTwice(h, t, transformed_source_data, transformed_target_data, calls, fault) ==
    Bind(IF fault = Cardinality(FitCalls(calls)) + 1
         THEN Raise("RuntimeError")
         ELSE EstimatorFit(h[t.estimator], transformed_source_data,
                           transformed_source_data),
         LAMBDA r :
        [err |-> r.err,
         heap |-> IF r.err = "" THEN [h EXCEPT ![t.estimator] = r.val[1]] ELSE h,
         info |-> IF r.err = "" THEN r.val[2] ELSE None,
         calls |-> Append(calls,
                          Call("est_fit", t.estimator,
                               <<transformed_source_data, transformed_source_data>>,
                               IF r.err = "" THEN r.val[2] ELSE None))])

\* self.estimator.fit(source_data=transformed_source_data,
\*                    target_data=transformed_target_data)
FitEstimator(h, t, transformed_source_data, transformed_target_data, calls, fault) ==
    Bind(IF fault = Cardinality(FitCalls(calls)) + 1
         THEN Raise("RuntimeError")
         ELSE EstimatorFit(h[t.estimator], transformed_source_data,
                           transformed_target_data),
         LAMBDA r :
        [err |-> r.err,
         heap |-> IF r.err = "" THEN [h EXCEPT ![t.estimator] = r.val[1]] ELSE h,
         info |-> IF r.err = "" THEN r.val[2] ELSE None,
         calls |-> Append(calls,
                          Call("est_fit", t.estimator,
                               <<transformed_source_data, transformed_target_data>>,
                               IF r.err = "" THEN r.val[2] ELSE None))])

\* FitResult with a slip: fit returns nothing.
FitResultNoReturn(h, t, seeded, calls, err, ret) ==
    [heap |-> h, tr |-> t, seeded |-> seeded, calls |-> calls, err |-> err,
     ret |-> None]

\* FitResult with a slip: the random state is never seeded.
FitResultUnseeded(h, t, seeded, calls, err, ret) ==
    [heap |-> h, tr |-> t, seeded |-> FALSE, calls |-> calls, err |-> err,
     ret |-> ret]

\* The result of LatentTranslator.fit: the new heap and translator state,
\* whether the random state was seeded, the calls made, the exception
\* raised ("" for none) and the value returned.
FitResult(h, t, seeded, calls, err, ret) ==
    [heap |-> h, tr |-> t, seeded |-> seeded, calls |-> calls, err |-> err,
     ret |-> ret]

\* LatentTranslator.fit past its assertion.
FitUnfitted(h, t, source_data, target_data, fault) ==
    Bind(Begin(t, source_data, target_data), LAMBDA t0 :
    Bind(Padded(h, t0, source_data, target_data), LAMBDA p :
    Bind(FitChain(p.heap, p.tr.source_transforms, 1, source_data, <<>>, fault),
         LAMBDA src :
        IF src.err # "" THEN FitResult(src.heap, p.tr, TRUE, src.calls, src.err, None)
        ELSE
    Bind(FitChain(src.heap, p.tr.target_transforms, 1, target_data, src.calls, fault),
         LAMBDA tgt :
        IF tgt.err # "" THEN FitResult(tgt.heap, p.tr, TRUE, tgt.calls, tgt.err, None)
        ELSE
    Bind(FitEstimator(tgt.heap, p.tr, src.x, tgt.x, tgt.calls, fault), LAMBDA est :
        IF est.err # "" THEN FitResult(est.heap, p.tr, TRUE, est.calls, est.err, None)
        ELSE FitResult(est.heap,
                       [p.tr EXCEPT !.translator_info = est.info,
                                    !.transformed_source_data = src.x,
                                    !.transformed_target_data = tgt.x],
                       TRUE, est.calls, "", est.info))))))

\* Fit with a slip: a fit that raises part-way takes the fitted flag back.
FitResetOnError(h, t, source_data, target_data, fault) ==
    IF t.fitted
    THEN FitResult(h, t, FALSE, <<>>, "AssertionError", None)
    ELSE Bind(FitUnfitted(h, t, source_data, target_data, fault), LAMBDA r :
             IF r.err # "" THEN [r EXCEPT !.tr.fitted = FALSE] ELSE r)

\* Fit with a slip: the assertion is missing.
FitNoAssert(h, t, source_data, target_data, fault) ==
    FitUnfitted(h, t, source_data, target_data, fault)

\* LatentTranslator.fit on translator state t and heap h.
Fit(h, t, source_data, target_data, fault) ==
    IF t.fitted
    THEN FitResult(h, t, FALSE, <<>>, "AssertionError", None)
    ELSE FitUnfitted(h, t, source_data, target_data, fault)

\* Reversed with a slip: the list is walked first to last.
NotReversed(s) == s

\* reversed(s)
Reversed(s) == [i \in 1..Len(s) |-> s[Len(s) + 1 - i]]

\* for transform in ids[i..]: x = transform(x), or transform.reverse(x)
RECURSIVE RunChain(_, _, _, _, _, _)
RunChain(h, ids, i, x, calls, op) ==
    IF i > Len(ids) THEN [err |-> "", x |-> x, calls |-> calls]
    ELSE Bind(IF op = "apply" THEN TransformApply(h[ids[i]], x)
              ELSE TransformReverse(h[ids[i]], x), LAMBDA r :
         Bind(Append(calls, Call(op, ids[i], x, r.val)), LAMBDA calls1 :
             IF r.err # "" THEN [err |-> r.err, x |-> x, calls |-> calls1]
             ELSE RunChain(h, ids, i + 1, r.val, calls1, op)))

\* ForwardTarget with a slip: the target transforms are applied, not reversed.
ForwardTargetApplied(h, t, y, calls) ==
    RunChain(h, Reversed(t.target_transforms), 1, y, calls, "apply")

\* ForwardTarget with a slip: the target transforms are not reversed at all.
ForwardTargetSkipped(h, t, y, calls) ==
    [err |-> "", x |-> y, calls |-> calls]

\* The tail of LatentTranslator.forward: every target transform's reverse,
\* last transform first.
ForwardTarget(h, t, y, calls) ==
    RunChain(h, Reversed(t.target_transforms), 1, y, calls, "reverse")

\* LatentTranslator.forward on translator state t and heap h: the calls
\* made, the exception raised and the value returned.
Forward(h, t, x) ==
    Bind(RunChain(h, t.source_transforms, 1, x, <<>>, "apply"), LAMBDA src :
        IF src.err # "" THEN [calls |-> src.calls, err |-> src.err, ret |-> None]
        ELSE
    Bind(EstimatorApply(h[t.estimator], src.x), LAMBDA est :
    Bind(Append(src.calls, Call("est_apply", t.estimator, src.x, est.val)),
         LAMBDA calls :
        IF est.err # "" THEN [calls |-> calls, err |-> est.err, ret |-> None]
        ELSE
    Bind(ForwardTarget(h, t, est.val, calls), LAMBDA tgt :
        IF tgt.err # "" THEN [calls |-> tgt.calls, err |-> tgt.err, ret |-> None]
        ELSE [calls |-> tgt.calls, err |-> "",
              ret |-> [source |-> src.x, target |-> tgt.x, info |-> <<>>]]))))

(***************************************************************************)
(* tests/translate/test_manual_translate.py: ManualLatentTranslation, the  *)
(* hand-written pipeline, with method "svd".                               *)
(***************************************************************************)
\* torch.as_tensor(c), broadcast over n columns.
Scalar(c, n) == Vector(n, LAMBDA j : c)

\* ManualLatentTranslation(seed, centering, std_correction, l2_norm, "svd")
ManualLatentTranslation(seed, centering, std_correction, l2_norm) ==
    [seed |-> seed, centering |-> centering, std_correction |-> std_correction,
     l2_norm |-> l2_norm, method |-> "svd", fitted |-> FALSE, sigma_rank |-> None,
     encoding_dim |-> 0, decoding_dim |-> 0,
     mean_encoding_anchors |-> None, mean_decoding_anchors |-> None,
     std_encoding_anchors |-> None, std_decoding_anchors |-> None,
     encoding_norm |-> None, decoding_norm |-> None, translation_matrix |-> None]

\* (anchors - mean) / std, and F.normalize of it when l2_norm.
ManualNormalize(m, anchors, mean, std) ==
    Bind(SubRow(anchors, mean), LAMBDA centered :
    Bind(DivRow(centered, std), LAMBDA scaled :
        [scaled |-> scaled,
         normalized |-> IF m.l2_norm THEN Normalize(scaled) ELSE scaled]))

\* ManualLatentTranslation.fit(encoding_anchors, decoding_anchors)
ManualFit(m, encoding_anchors, decoding_anchors) ==
    LET e == Cols(encoding_anchors)
        d == Cols(decoding_anchors)
        mean_encoding_anchors ==
            IF m.centering THEN Mean(encoding_anchors) ELSE Scalar(Zero, e)
        mean_decoding_anchors ==
            IF m.centering THEN Mean(decoding_anchors) ELSE Scalar(Zero, d)
        std_encoding_anchors ==
            IF m.std_correction THEN Std(encoding_anchors) ELSE Scalar(One, e)
        std_decoding_anchors ==
            IF m.std_correction THEN Std(decoding_anchors) ELSE Scalar(One, d)
    IN  Bind(<<ManualNormalize(m, encoding_anchors, mean_encoding_anchors,
                               std_encoding_anchors),
               ManualNormalize(m, decoding_anchors, mean_decoding_anchors,
                               std_decoding_anchors)>>, LAMBDA n :
        Bind(manual_svd_translation(
                 IF e < d THEN PadCols(n[1].normalized, d - e) ELSE n[1].normalized,
                 IF e > d THEN PadCols(n[2].normalized, e - d) ELSE n[2].normalized),
             LAMBDA svd :
            [m EXCEPT !.fitted = TRUE,
                      !.encoding_dim = e,
                      !.decoding_dim = d,
                      !.mean_encoding_anchors = mean_encoding_anchors,
                      !.mean_decoding_anchors = mean_decoding_anchors,
                      !.std_encoding_anchors = std_encoding_anchors,
                      !.std_decoding_anchors = std_decoding_anchors,
                      !.encoding_norm = MeanNorm(n[1].scaled),
                      !.decoding_norm = MeanNorm(n[2].scaled),
                      !.sigma_rank = SigmaRank(svd.s),
                      !.translation_matrix = svd.R]))

\* ManualLatentTranslation.transform(X)
ManualTransform(m, X) ==
    Bind(ManualNormalize(m, X, m.mean_encoding_anchors,
                         m.std_encoding_anchors).normalized, LAMBDA normalized :
    Bind(IF m.encoding_dim < m.decoding_dim
         THEN PadCols(normalized, m.decoding_dim - m.encoding_dim)
         ELSE normalized, LAMBDA encoding_x :
    Bind(FirstCols(MatMul(encoding_x, m.translation_matrix), m.decoding_dim),
         LAMBDA decoding_x :
    Bind(IF m.l2_norm THEN Scale(decoding_x, m.decoding_norm) ELSE decoding_x,
         LAMBDA rescaled :
    Bind(MulRow(rescaled, m.std_decoding_anchors), LAMBDA restored :
        [source |-> encoding_x,
         target |-> AddRow(restored, m.mean_decoding_anchors),
         info |-> <<>>])))))

(***************************************************************************)
(* The callers' inputs.                                                    *)
(***************************************************************************)
\* The transform chains of the parametrisations of test_manual_translation,
\* and the empty chain.
Chains ==
    {<<>>, <<"Centering">>, <<"StandardScaling">>, <<"L2">>,
     <<"Centering", "STDScaling">>, <<"Centering", "L2">>}

\* The k-th batch of shape (r, c): small integers, some columns constant.
Batch(r, c, k) ==
    Matrix(r, c, LAMBDA i, j : QInt(((i * (k + j) + j * k) % 4) - 1))

\* The source spaces (forward is given these too) and the target spaces of
\* width c.
SourceBatches(c) == {Batch(r, c, 1) : r \in 2..MaxRows}
TargetBatches(c) == {Batch(r, c, 2) : r \in 2..MaxRows}

\* The pairs of a source chain and a target chain: the same chain on both
\* sides, as in test_manual_translation, or a chain on one side only.
ChainPairs ==
    {<<c, c>> : c \in Chains} \cup {<<c, <<>> >> : c \in Chains}
    \cup {<< <<>>, c>> : c \in Chains}

\* The objects of a chain of classes.
ChainObjects(chain) == [i \in 1..Len(chain) |-> NewObject(chain[i], 0)]

\* The ids first+1 .. first+n.
Ids(first, n) == [i \in 1..n |-> first + i]

\* No call was made yet.
NoCall ==
    [op |-> "none", t |-> 0, x |-> None, args |-> None, fault |-> 0, retry |-> FALSE,
     pre |-> None,
     pre_heap |-> None, calls |-> <<>>, err |-> "", ret |-> None]

(***************************************************************************)
(* One translator built from fresh transform objects and a fresh           *)
(* SVDEstimator, as test_manual_translation builds it.                     *)
(***************************************************************************)
Init ==
    \E cp \in ChainPairs, autopad \in BOOLEAN :
        LET sc == cp[1]
            tc == cp[2]
            est == Len(sc) + Len(tc) + 1
        IN  /\ heap = ChainObjects(sc) \o ChainObjects(tc)
                        \o <<NewObject("SVDEstimator", 0)>>
            /\ translators =
                 <<LatentTranslator(0, est, Ids(0, Len(sc)), Ids(Len(sc), Len(tc)),
                                    autopad)>>
            /\ rng = -1
            /\ last = NoCall
            /\ manual = None
            /\ probe = None

\* Whether fit(source_data, target_data) on translator t repeats the call
\* made just before, which raised part-way (fit keeps its arguments in the
\* buffers source_data and target_data before anything can raise).
IsRetry(t, source_data, target_data) ==
    /\ last.op = "fit"
    /\ last.t = t
    /\ last.err \notin {"", "AssertionError"}
    /\ translators[t].source_data = source_data
    /\ translators[t].target_data = target_data

\* translator t: fit(source_data, target_data).  `last` keeps the state
\* before the call, the calls made and the outcome.
DoFit(t, source_data, target_data, fault) ==
    \E r \in {Fit(heap, translators[t], source_data, target_data, fault)} :
        /\ heap' = r.heap
        /\ translators' = [translators EXCEPT ![t] = r.tr]
        /\ rng' = IF r.seeded THEN translators[t].random_seed ELSE rng
        /\ last' = [op |-> "fit", t |-> t, x |-> None,
                    args |-> <<source_data, target_data>>, fault |-> fault,
                    retry |-> IsRetry(t, source_data, target_data),
                    pre |-> translators[t], pre_heap |-> heap,
                    calls |-> r.calls, err |-> r.err, ret |-> r.ret]

\* DoForward with a slip: forward keeps the transformed input on the
\* translator.
DoForwardKeeping(t, x) ==
    \E r \in {Forward(heap, translators[t], x)} :
        /\ last' = [op |-> "forward", t |-> t, x |-> x, args |-> None, fault |-> 0,
                    retry |-> FALSE,
                    pre |-> translators[t], pre_heap |-> heap,
                    calls |-> r.calls, err |-> r.err, ret |-> r.ret]
        /\ translators' = [translators EXCEPT ![t].transformed_source_data = x]
        /\ UNCHANGED <<heap, rng>>

\* translator t: forward(x)
DoForward(t, x) ==
    \E r \in {Forward(heap, translators[t], x)} :
        /\ last' = [op |-> "forward", t |-> t, x |-> x, args |-> None, fault |-> 0,
                    retry |-> FALSE,
                    pre |-> translators[t], pre_heap |-> heap,
                    calls |-> r.calls, err |-> r.err, ret |-> r.ret]
        /\ UNCHANGED <<heap, translators, rng>>

\* The fit calls LatentTranslator.fit makes on translator t when nothing
\* raises: one per transform (the padding transform included) and one for
\* the estimator.
NumFitCalls(t, source_data, target_data) ==
    Len(translators[t].source_transforms) + Len(translators[t].target_transforms)
    + (IF Cols(source_data) # Cols(target_data) THEN 2 ELSE 1)

\* A caller fits a translator that was not fitted before, on spaces of any
\* two shapes; any one of the fit calls made may raise.
FitStep ==
    \E t \in DOMAIN translators, cs \in 1..MaxCols, ct \in 1..MaxCols :
        /\ ~translators[t].fitted
        /\ \E source_data \in SourceBatches(cs), target_data \in TargetBatches(ct) :
              \E fault \in 0..NumFitCalls(t, source_data, target_data) :
                  DoFit(t, source_data, target_data, fault)
        /\ UNCHANGED <<manual, probe>>

\* A caller fits a translator again, on the data of its first fit or on
\* other data.
RefitStep ==
    \E t \in DOMAIN translators :
        /\ translators[t].fitted
        /\ \E source_data \in {translators[t].source_data, Batch(2, 1, 1)},
              target_data \in {translators[t].target_data, Batch(2, 1, 2)} :
              DoFit(t, source_data, target_data, 0)
        /\ UNCHANGED <<manual, probe>>

\* forward is given batches of the width the translator was fitted on, and
\* of any width before.
ForwardStep ==
    \E t \in DOMAIN translators, c \in 1..MaxCols :
        /\ translators[t].fitted => c = Cols(translators[t].source_data)
        /\ \E x \in SourceBatches(c) : DoForward(t, x)
        /\ UNCHANGED <<manual, probe>>

Next == FitStep \/ RefitStep \/ ForwardStep

Spec == Init /\ [][Next]_vars

(***************************************************************************)
(* Two translators with equal chains on both sides, built from objects of  *)
(* their own or from the same transform and estimator objects, which       *)
(* nn.ModuleList and self.estimator keep by reference.                     *)
(***************************************************************************)
\* The chains of the two translators.
PairChains == {<<"Centering">>, <<"StandardScaling">>, <<"Centering", "L2">>}

\* The random seeds to build a translator with.
Seeds == {0, 1}

InitTwo ==
    \E chain \in PairChains, shared \in BOOLEAN, seed1 \in Seeds, seed2 \in Seeds :
        LET n == Len(chain)
            objects == ChainObjects(chain) \o ChainObjects(chain)
                         \o <<NewObject("SVDEstimator", 0)>>
            first == IF shared THEN 0 ELSE 2 * n + 1
        IN  /\ heap = IF shared THEN objects ELSE objects \o objects
            /\ translators =
                 <<LatentTranslator(seed1, 2 * n + 1, Ids(0, n), Ids(n, n), TRUE),
                   LatentTranslator(seed2, first + 2 * n + 1, Ids(first, n),
                                    Ids(first + n, n), TRUE)>>
            /\ rng = -1
            /\ last = NoCall
            /\ manual = None
            /\ probe = None

\* A caller fits one of the translators, on spaces of two rows; the first
\* fit call made may raise.
FitPairStep ==
    \E t \in DOMAIN translators, cs \in 1..MaxCols, ct \in 1..MaxCols, fault \in 0..1 :
        /\ ~translators[t].fitted
        /\ DoFit(t, Batch(2, cs, 1), Batch(2, ct, 2), fault)
        /\ UNCHANGED <<manual, probe>>

NextTwo == FitPairStep \/ ForwardStep

SpecTwo == InitTwo /\ [][NextTwo]_vars

(***************************************************************************)
(* test_manual_translation: both pipelines are fitted on two parallel      *)
(* spaces (A, B) and then applied to A.                                    *)
(***************************************************************************)
\* The parametrisations: centering, std_correction, l2_norm of the manual
\* pipeline and the transform chain of either side of the translator.
Parametrisations ==
    {<<TRUE, TRUE, FALSE, <<"Centering", "STDScaling">> >>,
     <<TRUE, TRUE, FALSE, <<"StandardScaling">> >>,
     <<TRUE, FALSE, TRUE, <<"Centering", "L2">> >>,
     <<FALSE, FALSE, TRUE, <<"L2">> >>,
     <<TRUE, FALSE, FALSE, <<"Centering">> >>}

\* No column of x is constant, as in a space of random vectors.
NoConstantColumn(x) == \A j \in 1..Cols(x) : \E i \in 2..Rows(x) : x[i][j] # x[1][j]

\* The batches of shape (r, c) a parallel space is drawn from.
Samples(r, c) == {x \in {Batch(r, c, k) : k \in 1..MaxSample} : NoConstantColumn(x)}

\* parallel_spaces: two spaces of one shape.
ParallelSpaces ==
    UNION {Samples(r, c) \X Samples(r, c) : r \in 2..MaxRows, c \in 1..MaxCols}

InitEq ==
    \E p \in Parametrisations :
        /\ heap = ChainObjects(p[4]) \o ChainObjects(p[4])
                    \o <<NewObject("SVDEstimator", 0)>>
        /\ translators =
             <<LatentTranslator(0, 2 * Len(p[4]) + 1, Ids(0, Len(p[4])),
                                Ids(Len(p[4]), Len(p[4])), TRUE)>>
        /\ rng = -1
        /\ last = NoCall
        /\ manual = ManualLatentTranslation(0, p[1], p[2], p[3])
        /\ probe = None

\* manual_translator.fit(A, B); translator.fit(source_data=A, target_data=B)
FitBoth ==
    /\ ~manual.fitted
    /\ \E s \in ParallelSpaces :
          /\ manual' = ManualFit(manual, s[1], s[2])
          /\ DoFit(1, s[1], s[2], 0)
    /\ UNCHANGED probe

\* manual_output = manual_translator.transform(A); latentis_output =
\* translator(A), which `last` keeps.
ApplyBoth ==
    /\ manual.fitted
    /\ probe = None
    /\ probe' = [manual_output |-> ManualTransform(manual, translators[1].source_data)]
    /\ DoForward(1, translators[1].source_data)
    /\ UNCHANGED manual

NextEq == FitBoth \/ ApplyBoth

SpecEq == InitEq /\ [][NextEq]_vars

(***************************************************************************)
(* One transform, fitted on a batch and then taken there and back:         *)
(* reverse(apply(x)).                                                      *)
(***************************************************************************)
\* The classes the round-trip law is stated for.
RoundTripClasses == {"Centering", "StandardScaling", "ZeroPadding"}

\* The batches of width c.
Batches(c) == {Batch(r, c, k) : r \in 2..MaxRows, k \in 1..MaxSample}

InitRT ==
    \E cls \in RoundTripClasses, pad \in 1..MaxCols :
        /\ heap = <<NewObject(cls, IF cls = "ZeroPadding" THEN pad ELSE 0)>>
        /\ translators = <<>>
        /\ rng = -1
        /\ last = NoCall
        /\ manual = None
        /\ probe = None

\* transform.fit(x)
TransformFitStep ==
    /\ ~heap[1].fitted
    /\ \E c \in 1..MaxCols : \E x \in Batches(c) :
          heap' = <<TransformFit(heap[1], x)>>
    /\ probe' = None
    /\ UNCHANGED <<translators, rng, last, manual>>

\* z = transform.reverse(transform(x)), on a batch of the fitted width when
\* the transform is fitted.
RoundTripStep ==
    /\ \E c \in 1..MaxCols : \E x \in Batches(c) :
          /\ heap[1].fitted => FittedWidth(heap[1], x)
          /\ \E y \in {TransformApply(heap[1], x)} :
                IF y.err # ""
                THEN probe' = [x |-> x, y |-> None, z |-> None, err |-> y.err]
                ELSE \E z \in {TransformReverse(heap[1], y.val)} :
                        probe' = [x |-> x, y |-> y.val, z |-> z.val, err |-> z.err]
    /\ UNCHANGED <<heap, translators, rng, last, manual>>

NextRT == TransformFitStep \/ RoundTripStep

SpecRT == InitRT /\ [][NextRT]_vars

(***************************************************************************)
(* Properties of LatentTranslator, over Spec.                              *)
(***************************************************************************)
\* The most recent call is a fit that got past the assertion.
FitRan == last.op = "fit" /\ ~last.pre.fitted

\* The most recent call is a forward.
ForwardRan == last.op = "forward"

\* The translator of the most recent call, as it is now.
Tr == translators[last.t]

Max(a, b) == IF a < b THEN b ELSE a
Min(a, b) == IF a < b THEN a ELSE b

\* C1: fit on a translator whose fitted flag is already true fails with an
\* error, calls no transform's fit and not the estimator's fit, and leaves
\* the translator and every object as they were.
C1_SecondFitFails ==
    (last.op = "fit" /\ last.pre.fitted) =>
        /\ last.err = "AssertionError"
        /\ last.calls = <<>>
        /\ last.ret = None
        /\ Tr = last.pre
        /\ heap = last.pre_heap

\* A fit was called on a translator that an earlier fit had fitted completely.
C1_Witness ==
    /\ last.op = "fit"
    /\ last.pre.fitted
    /\ last.pre.transformed_source_data # None
    /\ last.err = "AssertionError"

\* C2: forward on a translator whose fitted flag is false fails, and calls
\* neither a source transform nor the estimator.
C2_ForwardBeforeFitFails ==
    (ForwardRan /\ ~last.pre.fitted) =>
        /\ last.err # ""
        /\ last.calls = <<>>

\* The ZeroPadding objects among the transforms of both chains of t.
Paddings(t) ==
    {k \in 1..Len(t.source_transforms) :
        heap[t.source_transforms[k]].cls = "ZeroPadding"}
    \cup {-k : k \in {k \in 1..Len(t.target_transforms) :
                        heap[t.target_transforms[k]].cls = "ZeroPadding"}}

\* C3: a fit on source width s and target width c, s # c, appends one new
\* ZeroPadding of pad |s - c| to the chain of the narrower side and nothing
\* to the other chain, and the estimator is handed a source and a target of
\* max(s, c) columns each.
C3_PaddingOnNarrowerSide ==
    FitRan =>
        LET s == Cols(Tr.source_data)
            c == Cols(Tr.target_data)
            p == Len(last.pre_heap) + 1
            narrow == IF s < c THEN Tr.source_transforms ELSE Tr.target_transforms
            narrow0 == IF s < c THEN last.pre.source_transforms
                       ELSE last.pre.target_transforms
            wide == IF s < c THEN Tr.target_transforms ELSE Tr.source_transforms
            wide0 == IF s < c THEN last.pre.target_transforms
                     ELSE last.pre.source_transforms
        IN  s # c =>
              /\ narrow = Append(narrow0, p)
              /\ wide = wide0
              /\ Len(heap) = p
              /\ heap[p].cls = "ZeroPadding"
              /\ heap[p].pad = Abs(s - c)
              /\ Cardinality(Paddings(Tr)) = 1
              /\ \A k \in 1..Len(last.calls) :
                    last.calls[k].op = "est_fit" =>
                        /\ Cols(last.calls[k].x[1]) = Max(s, c)
                        /\ Cols(last.calls[k].x[2]) = Max(s, c)
              /\ last.fault = 0 =>
                    \E k \in 1..Len(last.calls) : last.calls[k].op = "est_fit"

\* A fit on a source wider than the target ran to the end.
C3_Witness ==
    /\ FitRan
    /\ last.err = ""
    /\ Cols(Tr.source_data) > Cols(Tr.target_data)
    /\ Len(last.pre.target_transforms) > 0

\* C4: on a translator fitted on source width s and target width c, forward
\* on a batch of N rows of width s returns a target of N rows and c columns
\* and a source of N rows and max(s, c) columns.
C4_ForwardShapes ==
    (ForwardRan /\ last.pre.transformed_source_data # None) =>
        /\ last.err = ""
        /\ Rows(last.ret.target) = Rows(last.x)
        /\ Cols(last.ret.target) = Cols(Tr.target_data)
        /\ Rows(last.ret.source) = Rows(last.x)
        /\ Cols(last.ret.source) = Max(Cols(Tr.source_data), Cols(Tr.target_data))

\* forward returned on a translator fitted on a source wider than the target,
\* for a batch of another row count than the training data.
C4_Witness ==
    /\ ForwardRan
    /\ last.err = ""
    /\ Cols(Tr.source_data) > Cols(Tr.target_data)
    /\ Rows(last.x) # Rows(Tr.source_data)

\* The calls forward is to make on translator t, in order, as <<op, obj>>.
ForwardPlan(t) ==
    LET n == Len(t.source_transforms)
        m == Len(t.target_transforms)
    IN  [k \in 1..(n + 1 + m) |->
            IF k <= n THEN <<"apply", t.source_transforms[k]>>
            ELSE IF k = n + 1 THEN <<"est_apply", t.estimator>>
            ELSE <<"reverse", t.target_transforms[m + 1 - (k - n - 1)]>>]

\* C5: the calls of forward are, in this order: apply of each source
\* transform first to last, the estimator once, reverse of each target
\* transform last to first; each call is given what the call before it
\* returned, the first one the input; what is returned is what the last
\* source apply and the last call returned.
C5_ForwardOrder ==
    ForwardRan =>
        LET plan == ForwardPlan(last.pre)
            calls == last.calls
            n == Len(last.pre.source_transforms)
        IN  /\ Len(calls) <= Len(plan)
            /\ \A k \in 1..Len(calls) :
                  /\ <<calls[k].op, calls[k].obj>> = plan[k]
                  /\ calls[k].x = IF k = 1 THEN last.x ELSE calls[k - 1].y
            /\ last.err = "" =>
                  /\ Len(calls) = Len(plan)
                  /\ last.ret.target = calls[Len(calls)].y
                  /\ last.ret.source = calls[n + 1].x

\* forward returned on a translator with two source and two target transforms.
C5_Witness ==
    /\ ForwardRan
    /\ last.err = ""
    /\ Len(last.pre.source_transforms) >= 2
    /\ Len(last.pre.target_transforms) >= 2

\* fit and apply of each transform of ids, in order, as <<op, obj>>.
ChainPlan(ids) ==
    [k \in 1..(2 * Len(ids)) |->
        <<IF k % 2 = 1 THEN "fit" ELSE "apply", ids[(k + 1) \div 2]>>]

\* The data call k of a chain's calls is to be given: a fit what the apply
\* before it returned (the raw data for the first), an apply what its fit
\* was given.
ChainInput(calls, k, raw) ==
    IF k = 1 THEN raw
    ELSE IF k % 2 = 1 THEN calls[k - 1].y
    ELSE calls[k - 1].x

\* What a chain hands on: what its last apply returned, the raw data when
\* the chain is empty.
ChainOutput(calls, raw) == IF calls = <<>> THEN raw ELSE calls[Len(calls)].y

\* C6: fit fits and applies the source transforms in order, then the target
\* transforms in order, each on what the transform before it in its chain
\* returned (the first on the raw data), and calls the estimator's fit last,
\* on what the last transform of either chain returned.
C6_FitOrder ==
    FitRan =>
        LET src == Tr.source_transforms
            tgt == Tr.target_transforms
            plan == ChainPlan(src) \o ChainPlan(tgt) \o <<<<"est_fit", Tr.estimator>>>>
            calls == last.calls
            n == 2 * Len(src)
            m == 2 * Len(tgt)
            srcCalls == SubSeq(calls, 1, Min(n, Len(calls)))
            tgtCalls == SubSeq(calls, n + 1, Min(n + m, Len(calls)))
        IN  /\ Len(calls) <= Len(plan)
            /\ \A k \in 1..Len(calls) : <<calls[k].op, calls[k].obj>> = plan[k]
            /\ \A k \in 1..Len(srcCalls) :
                  srcCalls[k].x = ChainInput(srcCalls, k, Tr.source_data)
            /\ \A k \in 1..Len(tgtCalls) :
                  tgtCalls[k].x = ChainInput(tgtCalls, k, Tr.target_data)
            /\ Len(calls) = Len(plan) =>
                  calls[Len(calls)].x = <<ChainOutput(srcCalls, Tr.source_data),
                                          ChainOutput(tgtCalls, Tr.target_data)>>
            /\ last.err = "" => Len(calls) = Len(plan)

\* A fit ran to the end on chains of two or more transforms each, the second
\* source transform being fitted on other data than the first.
C6_Witness ==
    /\ FitRan
    /\ last.err = ""
    /\ Len(Tr.source_transforms) >= 2
    /\ Len(Tr.target_transforms) >= 2
    /\ last.calls[3].x # last.calls[1].x

\* C7: with either pipeline fitted on parallel spaces (A, B) of one width
\* and applied to A, in each of the five parametrisations, forward returns
\* and its 'target' equals the manual pipeline's 'target' entry by entry,
\* which is close under every tolerance.
C7_ManualEquivalence ==
    (probe # None /\ ForwardRan) =>
        /\ last.err = ""
        /\ last.ret.target = probe.manual_output.target

\* Both pipelines were applied after centering and L2 normalisation, with a
\* translation matrix that is not the identity.
C7_Witness ==
    /\ probe # None
    /\ ForwardRan
    /\ last.err = ""
    /\ manual.centering
    /\ manual.l2_norm
    /\ manual.translation_matrix[1][1] = QInt(-1)
    /\ last.ret.target # last.x

\* C8: a fitted Centering, StandardScaling or ZeroPadding takes every batch
\* x of the fitted width there and back to x itself: reverse(apply(x)) = x;
\* ZeroPadding(pad) gives x pad more columns, all zero, on the way.
C8_RoundTrip ==
    (probe # None /\ heap[1].fitted) =>
        /\ probe.err = ""
        /\ probe.z = probe.x
        /\ heap[1].cls = "ZeroPadding" =>
              /\ Cols(probe.y) = Cols(probe.x) + heap[1].pad
              /\ FirstCols(probe.y, Cols(probe.x)) = probe.x
              /\ \A i \in 1..Rows(probe.y) :
                    \A j \in (Cols(probe.x) + 1)..Cols(probe.y) : probe.y[i][j] = Zero

\* A fitted StandardScaling took a batch there, to other values, and back.
C8_Witness ==
    /\ probe # None
    /\ heap[1].fitted
    /\ heap[1].cls = "StandardScaling"
    /\ probe.err = ""
    /\ probe.y # probe.x
    /\ probe.z = probe.x

C10_RetryFails ==
    (last.op = "fit" /\ last.retry) =>
        /\ last.err = "AssertionError"
        /\ Tr = last.pre
        /\ heap = last.pre_heap

\* A fit was repeated after it had raised in a transform or in the estimator,
\* with a padding transform appended and a transform fitted by then.
C10_Witness ==
    /\ last.op = "fit"
    /\ last.retry
    /\ Cardinality(Paddings(last.pre)) = 1
    /\ \E k \in 1..Len(last.pre.source_transforms) :
          heap[last.pre.source_transforms[k]].fitted


\* C11: a fit that returned leaves on the translator the source and target
\* data it was given and the transformed source and target data the
\* estimator was fitted on, and returned what the estimator's fit returned,
\* which the translator keeps as translator_info.
C11_FitRetains ==
    (FitRan /\ last.err = "") =>
        LET e == last.calls[Len(last.calls)]
        IN  /\ e.op = "est_fit"
            /\ Tr.source_data = last.args[1]
            /\ Tr.target_data = last.args[2]
            /\ Tr.transformed_source_data = e.x[1]
            /\ Tr.transformed_target_data = e.x[2]
            /\ last.ret = e.y
            /\ Tr.translator_info = e.y

\* A fit returned whose transforms changed the data of both sides.
C11_Witness ==
    /\ FitRan
    /\ last.err = ""
    /\ Tr.transformed_source_data # Tr.source_data
    /\ Tr.transformed_target_data # Tr.target_data
    /\ last.ret # None


\* Translators 1 and 2 are built from objects of their own.
Fresh == translators[1].estimator # translators[2].estimator

\* Translator t was fitted by a fit that returned.
FitDone(t) == translators[t].transformed_source_data # None

Objects(t) ==
    {t.source_transforms[k] : k \in 1..Len(t.source_transforms)}
    \cup {t.target_transforms[k] : k \in 1..Len(t.target_transforms)}
    \cup {t.estimator}

\* C13: a fit or a forward on one translator leaves every transform and the
\* estimator of the other translator as they were.
C13_NoSharedState ==
    last.op \in {"fit", "forward"} =>
        \A u \in DOMAIN translators \ {last.t} :
            \A id \in Objects(translators[u]) : heap[id] = last.pre_heap[id]


\* Object id is a ZeroPadding.
IsPadding(id) == heap[id].cls = "ZeroPadding"

\* The calls among calls made on the transforms of chain ids, in order.
CallsOn(calls, ids) ==
    SelectSeq(calls, LAMBDA c : c.op \in {"fit", "apply", "reverse"}
                                /\ \E k \in 1..Len(ids) : ids[k] = c.obj)

\* In the calls made on a chain, those on the padding transform come after
\* every call on another transform, and the other transforms are given
\* data of width w.
PaddingCalledLast(calls, w) ==
    \A j \in 1..Len(calls) :
        IF IsPadding(calls[j].obj)
        THEN \A k \in (j + 1)..Len(calls) : IsPadding(calls[k].obj)
        ELSE Cols(calls[j].x) = w

\* C14: a ZeroPadding in a chain is its last transform.  In fit and in
\* forward the source padding is fitted and applied after every other
\* source transform, which are given data of the source's own width; in
\* forward the reverse of the target padding is the first call made on a
\* target transform.
C14_PaddingLast ==
    /\ \A t \in DOMAIN translators :
          /\ \A k \in 1..Len(translators[t].source_transforms) :
                IsPadding(translators[t].source_transforms[k])
                    => k = Len(translators[t].source_transforms)
          /\ \A k \in 1..Len(translators[t].target_transforms) :
                IsPadding(translators[t].target_transforms[k])
                    => k = Len(translators[t].target_transforms)
    /\ FitRan =>
          /\ PaddingCalledLast(CallsOn(last.calls, Tr.source_transforms),
                               Cols(Tr.source_data))
          /\ PaddingCalledLast(CallsOn(last.calls, Tr.target_transforms),
                               Cols(Tr.target_data))
    /\ (ForwardRan /\ Tr.transformed_source_data # None) =>
          LET src == CallsOn(last.calls, Tr.source_transforms)
              tgt == CallsOn(last.calls, Tr.target_transforms)
          IN  /\ PaddingCalledLast(src, Cols(Tr.source_data))
              /\ Cols(Tr.source_data) < Cols(Tr.target_data) =>
                    /\ IsPadding(src[Len(src)].obj)
                    /\ src[Len(src)].op = "apply"
              /\ Cols(Tr.source_data) > Cols(Tr.target_data) =>
                    /\ IsPadding(tgt[1].obj)
                    /\ tgt[1].op = "reverse"
                    /\ \A k \in 2..Len(tgt) : ~IsPadding(tgt[k].obj)

\* forward returned on a translator with two source transforms of its own
\* and a source padding.
C14_Witness ==
    /\ ForwardRan
    /\ last.err = ""
    /\ Len(Tr.source_transforms) = 3
    /\ IsPadding(Tr.source_transforms[3])
    /\ Len(last.calls) >= 4


\* Translator state t with the other value of the autopad flag.
OtherAutopad(t) == [t EXCEPT !.autopad = ~@]

\* C15: with either value of autopad, a fit on different widths appends the
\* ZeroPadding, and fit and forward make the same calls, end the same way
\* and leave the same state as with the other value of the flag.
C15_AutopadIgnored ==
    /\ (FitRan /\ Cols(Tr.source_data) # Cols(Tr.target_data)) =>
          Cardinality(Paddings(Tr)) = 1
    /\ last.op = "fit" =>
          \E r \in {Fit(last.pre_heap, OtherAutopad(last.pre), last.args[1],
                        last.args[2], last.fault)} :
              /\ r.heap = heap
              /\ r.tr = OtherAutopad(Tr)
              /\ r.calls = last.calls
              /\ r.err = last.err
              /\ r.ret = last.ret
    /\ ForwardRan =>
          \E r \in {Forward(last.pre_heap, OtherAutopad(last.pre), last.x)} :
              /\ r.calls = last.calls
              /\ r.err = last.err
              /\ r.ret = last.ret

\* A translator built with autopad = False was fitted on a source narrower
\* than the target, and forward returned on it.
C15_Witness ==
    /\ ForwardRan
    /\ last.err = ""
    /\ ~Tr.autopad
    /\ Cols(Tr.source_data) < Cols(Tr.target_data)
    /\ Cardinality(Paddings(Tr)) = 1


\* The positions in calls of the calls op made on object id.
CallsOf(calls, op, id) ==
    {k \in 1..Len(calls) : calls[k].op = op /\ calls[k].obj = id}

C17_ForwardReadOnly ==
    ForwardRan =>
        /\ Tr = last.pre
        /\ heap = last.pre_heap
        /\ last.err = "" => last.ret.info = <<>>
        /\ \E r \in {Forward(heap, Tr, last.x)} :
              /\ r.calls = last.calls
              /\ r.err = last.err
              /\ r.ret = last.ret

\* forward returned, on a fitted translator with transforms on both sides,
\* a target other than its input.
C17_Witness ==
    /\ ForwardRan
    /\ last.err = ""
    /\ Tr.fitted
    /\ Len(Tr.source_transforms) > 0
    /\ Len(Tr.target_transforms) > 0
    /\ last.ret.target # last.x


\* The fitted flag of translator t changes in a step only from false to
\* true, and only in a fit call on t.
FlagOnlySet(t) ==
    translators'[t].fitted # translators[t].fitted =>
        /\ ~translators[t].fitted
        /\ translators'[t].fitted
        /\ last'.op = "fit"
        /\ last'.t = t

\* C18: the fitted flag is false until the first fit call on the
\* translator, is true after every fit call, also one that raised
\* part-way, and no step sets it back to false.
C18_FittedFlag ==
    /\ [](/\ last.op = "none" => \A t \in DOMAIN translators : ~translators[t].fitted
          /\ last.op = "fit" => Tr.fitted
          /\ \A t \in DOMAIN translators :
                translators[t].fitted <=> translators[t].source_data # None)
    /\ [][\A t \in DOMAIN translators : FlagOnlySet(t)]_vars

\* A forward was called after a fit that raised part-way: the flag is true,
\* the transformed data and the estimator's mapping are absent.
C18_Witness ==
    /\ ForwardRan
    /\ Tr.fitted
    /\ Tr.transformed_source_data = None
    /\ Tr.transformed_target_data = None
    /\ ~heap[Tr.estimator].fitted
    /\ heap[Tr.estimator].R = None


\* The transform lists of translator t change in a step only in its first
\* fit, and then by one new ZeroPadding appended to one of them.
ListsGrowOnce(t) ==
    LET old == translators[t]
        new == translators'[t]
        pad_id == Len(heap) + 1
    IN  <<new.source_transforms, new.target_transforms>>
            # <<old.source_transforms, old.target_transforms>> =>
          /\ ~old.fitted
          /\ new.fitted
          /\ Len(heap') = pad_id
          /\ heap'[pad_id].cls = "ZeroPadding"
          /\ \/ /\ new.source_transforms = Append(old.source_transforms, pad_id)
                /\ new.target_transforms = old.target_transforms
             \/ /\ new.source_transforms = old.source_transforms
                /\ new.target_transforms = Append(old.target_transforms, pad_id)

\* C19: a fit on equal widths leaves both transform lists as they were
\* built and adds no ZeroPadding; a translator never holds more than one
\* ZeroPadding, and its lists hold the transforms it was built with (one
\* less than the estimator's id in all) and at most one more.
C19_AtMostOnePadding ==
    /\ [](/\ (FitRan /\ Cols(Tr.source_data) = Cols(Tr.target_data)) =>
                /\ Tr.source_transforms = last.pre.source_transforms
                /\ Tr.target_transforms = last.pre.target_transforms
                /\ Paddings(Tr) = {}
                /\ Len(heap) = Len(last.pre_heap)
          /\ \A t \in DOMAIN translators :
                /\ Cardinality(Paddings(translators[t])) <= 1
                /\ Len(translators[t].source_transforms)
                     + Len(translators[t].target_transforms)
                     \in {translators[t].estimator - 1, translators[t].estimator})
    /\ [][\A t \in DOMAIN translators : ListsGrowOnce(t)]_vars

\* A fit on equal widths returned on a translator with transforms on both
\* sides, and a fit was tried on it again, on different widths.
C19_Witness ==
    /\ last.op = "fit"
    /\ last.pre.fitted
    /\ Cols(Tr.source_data) = Cols(Tr.target_data)
    /\ Cols(last.args[1]) # Cols(last.args[2])
    /\ Len(Tr.source_transforms) > 0
    /\ Len(Tr.target_transforms) > 0
    /\ Paddings(Tr) = {}

=============================================================================
